---- MODULE Spec2Model ----
(***************************************************************************)
(* zoned_time_lite: conversion between UTC instants and civil (wall-clock) *)
(* time in a named timezone.                                               *)
(*                                                                         *)
(* A datetime is the record [ord, sec, us]: the proleptic Gregorian        *)
(* ordinal of its date (0001-01-01 is 1), the second of its day and its    *)
(* microsecond, which is how the datetime type the code uses stores it.    *)
(* An aware UTC datetime and a naive datetime share this shape.            *)
(*                                                                         *)
(* ZoneInfo is modelled by each zone's POSIX rule (the rule the timezone   *)
(* database applies from 2008 on) and by the PEP 495 lookup of the offset  *)
(* of a wall time (fold 0: the offset before the transition). Of earlier   *)
(* years the model holds the offsets in force at the new year of 1970, the *)
(* only earlier dates it converts.                                         *)
(***************************************************************************)
EXTENDS Integers, Sequences, FiniteSets, TLC

----------------------------------------------------------------------------
(* Calendar arithmetic of the datetime type                                *)

MINYEAR == 1
MAXYEAR == 9999
SecondsPerDay == 24 * 3600

is_leap_year(year) ==
    (year % 4 = 0 /\ year % 100 # 0) \/ year % 400 = 0

get_days_in_month(year, month) ==
    LET days_in_month == <<31, 28, 31, 30, 31, 30, 31, 31, 30, 31, 30, 31>>
    IN  IF month = 2 /\ is_leap_year(year) THEN 29
        ELSE IF 1 <= month /\ month <= 12 THEN days_in_month[month]
        ELSE 30

DaysBeforeYear(year) ==
    LET y == year - 1
    IN  y * 365 + (y \div 4) - (y \div 100) + (y \div 400)

RECURSIVE DaysBeforeMonth(_, _)
DaysBeforeMonth(year, month) ==
    IF month <= 1 THEN 0
    ELSE DaysBeforeMonth(year, month - 1) + get_days_in_month(year, month - 1)

\* ordinal of the date year-month-day
Ymd2Ord(year, month, day) ==
    DaysBeforeYear(year) + DaysBeforeMonth(year, month) + day

\* the year of an ordinal
OrdYear(ord) ==
    LET n0   == ord - 1
        n400 == n0 \div 146097
        r400 == n0 % 146097
        n100 == r400 \div 36524
        r100 == r400 % 36524
        n4   == r100 \div 1461
        r4   == r100 % 1461
        n1   == r4 \div 365
        y    == n400 * 400 + n100 * 100 + n4 * 4 + n1 + 1
    IN  IF n1 = 4 \/ n100 = 4 THEN y - 1 ELSE y

RECURSIVE MonthOfYearDay(_, _, _)
\* the month holding the yd-th day (from 1) of the year, searched from month m
MonthOfYearDay(year, yd, m) ==
    IF yd <= DaysBeforeMonth(year, m + 1) THEN m
    ELSE MonthOfYearDay(year, yd, m + 1)

\* the calendar fields of a datetime
Fields(dt) ==
    LET y  == OrdYear(dt.ord)
        yd == dt.ord - DaysBeforeYear(y)
        m  == MonthOfYearDay(y, yd, 1)
    IN  [year   |-> y,
         month  |-> m,
         day    |-> yd - DaysBeforeMonth(y, m),
         hour   |-> dt.sec \div 3600,
         minute |-> (dt.sec % 3600) \div 60,
         second |-> dt.sec % 60]

\* weekday of an ordinal, 0 = Monday .. 6 = Sunday
Weekday(ord) == (ord + 6) % 7

\* dt + seconds, not range-checked
AddSeconds(dt, seconds) ==
    LET total == dt.sec + seconds
    IN  [ord |-> dt.ord + (total \div SecondsPerDay),
         sec |-> total % SecondsPerDay,
         us  |-> dt.us]

\* the datetime type holds years MINYEAR..MAXYEAR only: arithmetic that leaves
\* this range raises OverflowError
InRange(dt) == Ymd2Ord(MINYEAR, 1, 1) <= dt.ord /\ dt.ord <= Ymd2Ord(MAXYEAR, 12, 31)

\* a <= b and a < b on the time line, to the second
Leq(a, b) == a.ord < b.ord \/ (a.ord = b.ord /\ a.sec <= b.sec)
Lt(a, b)  == a.ord < b.ord \/ (a.ord = b.ord /\ a.sec < b.sec)

----------------------------------------------------------------------------
(* The registry                                                            *)

\* dst_offset and preferred_abbreviations are Optional: <<>> is None
TIMEZONE_REGISTRY ==
    [tz \in {"Europe/London", "America/New_York", "America/Los_Angeles",
             "Europe/Paris", "Europe/Berlin", "Asia/Tokyo", "Australia/Sydney"} |->
        CASE tz = "Europe/London" ->
                [id |-> tz, standard_offset |-> 0, dst_offset |-> <<60>>,
                 preferred_abbreviations |-> <<[standard |-> "GMT", dst |-> "BST"]>>]
          [] tz = "America/New_York" ->
                [id |-> tz, standard_offset |-> -300, dst_offset |-> <<-240>>,
                 preferred_abbreviations |-> <<[standard |-> "EST", dst |-> "EDT"]>>]
          [] tz = "America/Los_Angeles" ->
                [id |-> tz, standard_offset |-> -480, dst_offset |-> <<-420>>,
                 preferred_abbreviations |-> <<[standard |-> "PST", dst |-> "PDT"]>>]
          [] tz = "Europe/Paris" ->
                [id |-> tz, standard_offset |-> 60, dst_offset |-> <<120>>,
                 preferred_abbreviations |-> <<[standard |-> "CET", dst |-> "CEST"]>>]
          [] tz = "Europe/Berlin" ->
                [id |-> tz, standard_offset |-> 60, dst_offset |-> <<120>>,
                 preferred_abbreviations |-> <<[standard |-> "CET", dst |-> "CEST"]>>]
          [] tz = "Asia/Tokyo" ->
                [id |-> tz, standard_offset |-> 540, dst_offset |-> <<>>,
                 preferred_abbreviations |-> <<>>]
          [] tz = "Australia/Sydney" ->
                [id |-> tz, standard_offset |-> 600, dst_offset |-> <<660>>,
                 preferred_abbreviations |-> <<[standard |-> "AEST", dst |-> "AEDT"]>>]]

----------------------------------------------------------------------------
(* The platform's timezone database (ZoneInfo)                             *)

\* identifiers the platform knows besides the registry's
PlatformOnlyZones == {"Asia/Kolkata", "UTC"}

\* The POSIX rule of a zone: offsets in seconds; DST starts on the sw-th
\* Sunday (5 = last) of month sm at sh o'clock local standard time and ends
\* on the ew-th Sunday of month em at eh o'clock local daylight time.
\* A zone without DST has sm = 0.
TZRule(tz) ==
    CASE tz = "Europe/London" ->
            [std |-> 0, dst |-> 3600, sm |-> 3, sw |-> 5, sh |-> 1, em |-> 10, ew |-> 5, eh |-> 2]
      [] tz \in {"Europe/Paris", "Europe/Berlin"} ->
            [std |-> 3600, dst |-> 7200, sm |-> 3, sw |-> 5, sh |-> 2, em |-> 10, ew |-> 5, eh |-> 3]
      [] tz = "America/New_York" ->
            [std |-> -18000, dst |-> -14400, sm |-> 3, sw |-> 2, sh |-> 2, em |-> 11, ew |-> 1, eh |-> 2]
      [] tz = "America/Los_Angeles" ->
            [std |-> -28800, dst |-> -25200, sm |-> 3, sw |-> 2, sh |-> 2, em |-> 11, ew |-> 1, eh |-> 2]
      [] tz = "Australia/Sydney" ->
            [std |-> 36000, dst |-> 39600, sm |-> 10, sw |-> 1, sh |-> 2, em |-> 4, ew |-> 1, eh |-> 3]
      [] tz = "Asia/Tokyo" ->
            [std |-> 32400, dst |-> 32400, sm |-> 0, sw |-> 0, sh |-> 0, em |-> 0, ew |-> 0, eh |-> 0]
      [] tz = "Asia/Kolkata" ->
            [std |-> 19800, dst |-> 19800, sm |-> 0, sw |-> 0, sh |-> 0, em |-> 0, ew |-> 0, eh |-> 0]
      [] OTHER ->
            [std |-> 0, dst |-> 0, sm |-> 0, sw |-> 0, sh |-> 0, em |-> 0, ew |-> 0, eh |-> 0]

\* the first year the rules above describe
RulesSince == 2008

\* the offset in force at the new year of 1970, in seconds: London kept
\* British Standard Time (UTC+1, not daylight time) and Sydney had no
\* daylight time yet
OffsetIn1970(tz) == IF tz = "Europe/London" THEN 3600 ELSE TZRule(tz).std

\* ordinal of the week-th Sunday (5 = the last one) of a month
NthSunday(year, month, week) ==
    IF week = 5
    THEN LET last == Ymd2Ord(year, month, get_days_in_month(year, month))
         IN  last - ((Weekday(last) + 1) % 7)
    ELSE LET first == Ymd2Ord(year, month, 1)
         IN  first + ((6 - Weekday(first)) % 7) + 7 * (week - 1)

\* the wall times (standard at the start, daylight at the end) of a year's
\* two transitions
RuleStart(tz, year) ==
    LET r == TZRule(tz)
    IN  [ord |-> NthSunday(year, r.sm, r.sw), sec |-> r.sh * 3600, us |-> 0]

RuleEnd(tz, year) ==
    LET r == TZRule(tz)
    IN  [ord |-> NthSunday(year, r.em, r.ew), sec |-> r.eh * 3600, us |-> 0]

\* whether ts lies in the daylight period from start to end of its year
\* (a southern zone's period wraps around the new year)
InDstPeriod(ts, start, end) ==
    IF Lt(start, end)
    THEN Leq(start, ts) /\ Lt(ts, end)
    ELSE ~(Leq(end, ts) /\ Lt(ts, start))

\* daylight time at a UTC instant
IsDstAtUtc(tz, utc) ==
    LET r    == TZRule(tz)
        year == OrdYear(utc.ord)
    IN  /\ r.sm # 0
        /\ year >= RulesSince
        /\ InDstPeriod(utc, AddSeconds(RuleStart(tz, year), -r.std),
                            AddSeconds(RuleEnd(tz, year), -r.dst))

\* daylight time at a wall time: with fold 0 the daylight period runs from
\* the end of the gap to the end of the repeated hour, with fold 1 from the
\* start of the gap to the start of the repeated hour
IsDstAtWall(tz, naive, fold) ==
    LET r     == TZRule(tz)
        year  == OrdYear(naive.ord)
        diff  == r.dst - r.std
        start == IF fold = 1 THEN RuleStart(tz, year)
                 ELSE AddSeconds(RuleStart(tz, year), diff)
        end   == IF fold = 1 THEN AddSeconds(RuleEnd(tz, year), -diff)
                 ELSE RuleEnd(tz, year)
    IN  /\ r.sm # 0
        /\ year >= RulesSince
        /\ InDstPeriod(naive, start, end)

\* ZoneInfo.utcoffset of a wall time, in seconds
UtcOffsetOfWall(tz, naive, fold) ==
    IF OrdYear(naive.ord) < RulesSince THEN OffsetIn1970(tz)
    ELSE IF IsDstAtWall(tz, naive, fold) THEN TZRule(tz).dst ELSE TZRule(tz).std

\* the offset ZoneInfo.fromutc applies to a UTC instant, in seconds
UtcOffsetAtUtc(tz, utc) ==
    IF OrdYear(utc.ord) < RulesSince THEN OffsetIn1970(tz)
    ELSE IF IsDstAtUtc(tz, utc) THEN TZRule(tz).dst ELSE TZRule(tz).std

----------------------------------------------------------------------------
(* Values passed to and returned by the operations                         *)

\* None where a datetime is expected
NoneDate == [ord |-> 0, sec |-> 0, us |-> 0]
NoParts  == [year |-> 0, month |-> 0, day |-> 0, hour |-> 0, minute |-> 0, second |-> 0]

\* the outcome of a call: a returned value or a raised exception
Raise(e)       == [status |-> "error", err |-> e, date |-> NoneDate, parts |-> NoParts, flag |-> FALSE]
ReturnDate(d)  == [status |-> "ok", err |-> "", date |-> d, parts |-> NoParts, flag |-> FALSE]
ReturnParts(p) == [status |-> "ok", err |-> "", date |-> NoneDate, parts |-> p, flag |-> FALSE]
ReturnBool(b)  == [status |-> "ok", err |-> "", date |-> NoneDate, parts |-> NoParts, flag |-> b]

\* "" when the validator returns, else the exception it raises
Passed == ""

\* the first exception of a sequence of validations, "" when all pass
RECURSIVE FirstError(_)
FirstError(checks) ==
    IF checks = <<>> THEN Passed
    ELSE IF Head(checks) # Passed THEN Head(checks)
    ELSE FirstError(Tail(checks))

----------------------------------------------------------------------------
(* validator.py                                                            *)

MinSupportedYear == 1970
MaxSupportedYear == 2100

validate_year(year) ==
    IF year < MinSupportedYear \/ year > MaxSupportedYear
    THEN "Invalid year: must be between 1970 and 2100"
    ELSE Passed

\* the identifiers of the model that hold no "/"
NoSlashIds == {"UTC", ""}

validate_timezone(timezone) ==
    IF timezone = "" THEN "Invalid timezone: empty string"
    ELSE IF timezone \in NoSlashIds THEN "Invalid timezone format"
    ELSE Passed

\* an aware datetime passes: its timestamp() cannot fail
validate_date(date) ==
    IF date = NoneDate THEN "Invalid date: expected datetime" ELSE Passed

validate_time_parts(parts) ==
    IF parts.year < 1 THEN "Invalid year"
    ELSE IF parts.month < 1 \/ parts.month > 12 THEN "Invalid month"
    ELSE IF parts.day < 1 \/ parts.day > 31 THEN "Invalid day"
    ELSE IF parts.hour < 0 \/ parts.hour > 23 THEN "Invalid hour"
    ELSE IF parts.minute < 0 \/ parts.minute > 59 THEN "Invalid minute"
    ELSE IF parts.second < 0 \/ parts.second > 59 THEN "Invalid second"
    ELSE Passed

----------------------------------------------------------------------------
(* timezone_registry.py                                                    *)

\* the exception of get_timezone_metadata, "" when it returns the metadata
get_timezone_metadata_error(reg, timezone) ==
    IF validate_timezone(timezone) # Passed THEN validate_timezone(timezone)
    ELSE IF timezone \notin DOMAIN reg THEN "Unsupported timezone"
    ELSE Passed

is_supported_timezone(reg, timezone) == timezone \in DOMAIN reg

\* avail is the set of identifiers the platform's database holds
validate_platform_timezone(avail, timezone) ==
    IF timezone \in avail THEN Passed ELSE "Timezone not available on this system"

----------------------------------------------------------------------------
(* time_converter.py                                                       *)

\* the standard offset applied all year
AsTimezone_StandardOnly(tz, utc) == AddSeconds(utc, TZRule(tz).std)

\* date.astimezone(zone): the wall clock of a UTC instant, which may leave
\* the range of datetime
AsTimezone(tz, utc) == AddSeconds(utc, UtcOffsetAtUtc(tz, utc))

to_timezone_parts(avail, date, tz) ==
    LET e == FirstError(<<validate_date(date), validate_timezone(tz),
                          validate_platform_timezone(avail, tz)>>)
        local_date == AsTimezone(tz, date)
    IN  IF e # Passed THEN Raise(e)
        ELSE IF ~InRange(local_date) THEN Raise("OverflowError")
        ELSE ReturnParts(Fields(local_date))

\* the constructor without its check of the day against the month
DatetimeError_NoDayCheck(parts) ==
    IF parts.year < MINYEAR \/ parts.year > MAXYEAR THEN "year is out of range"
    ELSE Passed

\* datetime(year, ..., second): "" or the ValueError of the constructor
DatetimeError(parts) ==
    IF parts.year < MINYEAR \/ parts.year > MAXYEAR THEN "year is out of range"
    ELSE IF parts.day > get_days_in_month(parts.year, parts.month)
         THEN "day is out of range for month"
    ELSE Passed

NaiveDatetime(parts) ==
    [ord |-> Ymd2Ord(parts.year, parts.month, parts.day),
     sec |-> parts.hour * 3600 + parts.minute * 60 + parts.second,
     us  |-> 0]

\* a sign slip: the offset added instead of subtracted
LocalizedToUtc_SignSlip(tz, naive, fold) ==
    AddSeconds(naive, UtcOffsetOfWall(tz, naive, fold))

\* naive_dt.replace(tzinfo=zone, fold=fold).astimezone(timezone.utc), not
\* range-checked
LocalizedToUtc(tz, naive, fold) ==
    AddSeconds(naive, -UtcOffsetOfWall(tz, naive, fold))

\* fold=1 passed to replace: the second occurrence
LocalizeFirst_Fold1(tz, naive) == LocalizedToUtc(tz, naive, 1)

\* naive_dt.replace(tzinfo=zone).astimezone(timezone.utc): fold keeps its
\* default 0, the first occurrence of a repeated wall time
LocalizeFirst(tz, naive) == LocalizedToUtc(tz, naive, 0)

GapSearchMinutes == 180

\* the deltas (in minutes, signed) whose adjusted wall time localizes
Resolvable(tz, naive, deltas) ==
    {d \in deltas :
        /\ InRange(AddSeconds(naive, d * 60))
        /\ InRange(LocalizeFirst(tz, AddSeconds(naive, d * 60)))}

SetMin(S) == CHOOSE m \in S : \A n \in S : m <= n
SetMax(S) == CHOOSE m \in S : \A n \in S : n <= m

\* the body of from_timezone_parts after its validations
ResolveParts(tz, parts) ==
    LET naive_dt == NaiveDatetime(parts)
        ahead    == Resolvable(tz, naive_dt, 1..GapSearchMinutes)
        behind   == Resolvable(tz, naive_dt, {-d : d \in 1..GapSearchMinutes})
    IN  IF DatetimeError(parts) # Passed THEN Raise("Invalid time parts")
        ELSE IF InRange(LocalizeFirst(tz, naive_dt))
             THEN ReturnDate(LocalizeFirst(tz, naive_dt))
        ELSE IF InRange(LocalizedToUtc(tz, naive_dt, 1))
             THEN ReturnDate(LocalizedToUtc(tz, naive_dt, 1))
        ELSE IF ahead # {}
             THEN ReturnDate(LocalizeFirst(tz, AddSeconds(naive_dt, SetMin(ahead) * 60)))
        ELSE IF behind # {}
             THEN ReturnDate(LocalizeFirst(tz, AddSeconds(naive_dt, SetMax(behind) * 60)))
        ELSE Raise("Cannot resolve time parts")

from_timezone_parts(avail, parts, tz) ==
    LET e == FirstError(<<validate_time_parts(parts), validate_timezone(tz),
                          validate_platform_timezone(avail, tz)>>)
    IN  IF e # Passed THEN Raise(e) ELSE ResolveParts(tz, parts)

----------------------------------------------------------------------------
(* dst_detector.py                                                         *)

is_dst(reg, avail, date, tz) ==
    LET e == FirstError(<<validate_date(date), validate_timezone(tz),
                          get_timezone_metadata_error(reg, tz),
                          validate_platform_timezone(avail, tz)>>)
    IN  IF e # Passed THEN Raise(e)
        ELSE IF reg[tz].dst_offset = <<>> THEN ReturnBool(FALSE)
        ELSE IF ~InRange(AsTimezone(tz, date)) THEN Raise("OverflowError")
        ELSE ReturnBool(IsDstAtUtc(tz, date))

----------------------------------------------------------------------------
(* Strings: a str is a TLA+ string, read a character at a time             *)

Digits == "0123456789"

CharAt(s, i) == SubSeq(s, i, i)

IsDigit(c) == \E i \in 1..Len(Digits) : CharAt(Digits, i) = c
DigitValue(c) == (CHOOSE i \in 1..Len(Digits) : CharAt(Digits, i) = c) - 1

\* str(num)
RECURSIVE Str(_)
Str(num) ==
    IF num < 0 THEN "-" \o Str(-num)
    ELSE IF num < 10 THEN CharAt(Digits, num + 1)
    ELSE Str(num \div 10) \o CharAt(Digits, (num % 10) + 1)

\* s.zfill(width): zeros on the left, after a sign
RECURSIVE zfill(_, _)
zfill(s, width) ==
    IF Len(s) >= width THEN s
    ELSE IF Len(s) > 0 /\ CharAt(s, 1) \in {"-", "+"}
         THEN CharAt(s, 1) \o zfill(SubSeq(s, 2, Len(s)), width - 1)
    ELSE zfill("0" \o s, width)

\* c in s, for a character c
Contains(s, c) == \E i \in 1..Len(s) : CharAt(s, i) = c

\* s.split(sep), for a character sep
RECURSIVE Split(_, _)
Split(s, sep) ==
    IF ~Contains(s, sep) THEN <<s>>
    ELSE LET i == CHOOSE k \in 1..Len(s) :
                      CharAt(s, k) = sep /\ \A j \in 1..(k - 1) : CharAt(s, j) # sep
         IN  <<SubSeq(s, 1, i - 1)>> \o Split(SubSeq(s, i + 1, Len(s)), sep)

\* the digits of a literal after its sign
Unsigned(s) ==
    IF Len(s) > 0 /\ CharAt(s, 1) \in {"-", "+"} THEN SubSeq(s, 2, Len(s)) ELSE s

\* int(s) returns: decimal digits after an optional sign (the blanks and
\* underscores int() also reads are not passed by the model)
IsIntLiteral(s) ==
    Len(Unsigned(s)) > 0 /\ \A i \in 1..Len(Unsigned(s)) : IsDigit(CharAt(Unsigned(s), i))

RECURSIVE NatOf(_)
NatOf(s) ==
    IF Len(s) = 0 THEN 0
    ELSE NatOf(SubSeq(s, 1, Len(s) - 1)) * 10 + DigitValue(CharAt(s, Len(s)))

int(s) == IF CharAt(s, 1) = "-" THEN -NatOf(Unsigned(s)) ELSE NatOf(Unsigned(s))

\* the characters of the strings compared, in code point order
CodePoints == " +-.0123456789:ABCDEGMPSTZ"
CodePoint(c) == CHOOSE i \in 1..Len(CodePoints) : CharAt(CodePoints, i) = c

\* a < b on str: the first differing character decides, a proper prefix
\* is smaller
RECURSIVE StrLess(_, _)
StrLess(a, b) ==
    IF Len(b) = 0 THEN FALSE
    ELSE IF Len(a) = 0 THEN TRUE
    ELSE IF CharAt(a, 1) # CharAt(b, 1)
         THEN CodePoint(CharAt(a, 1)) < CodePoint(CharAt(b, 1))
    ELSE StrLess(SubSeq(a, 2, Len(a)), SubSeq(b, 2, Len(b)))

ReturnText(s) ==
    [status |-> "ok", err |-> "", date |-> NoneDate, parts |-> NoParts,
     flag |-> FALSE, text |-> s]

----------------------------------------------------------------------------
(* utils.py                                                                *)

pad(num, length) == zfill(Str(num), length)

format_offset(offset_minutes) ==
    LET sign        == IF offset_minutes >= 0 THEN "+" ELSE "-"
        abs_minutes == IF offset_minutes >= 0 THEN offset_minutes ELSE -offset_minutes
        hours       == abs_minutes \div 60
        minutes     == abs_minutes % 60
    IN  "GMT" \o sign \o pad(hours, 2) \o ":" \o pad(minutes, 2)

----------------------------------------------------------------------------
(* validator.py: working hours and working days                            *)

\* the nested validate_time_string: "" when it returns the hour and minute
validate_time_string(time_str, label) ==
    LET parts == Split(time_str, ":")
    IN  IF ~Contains(time_str, ":")
        THEN "Invalid " \o label \o " time format: expected HH:MM"
        ELSE IF Len(parts) # 2
        THEN "Invalid " \o label \o " time format: expected HH:MM"
        ELSE IF ~IsIntLiteral(parts[1]) \/ ~IsIntLiteral(parts[2])
        THEN "Invalid " \o label \o " time format: expected numeric HH:MM"
        ELSE IF int(parts[1]) < 0 \/ int(parts[1]) > 23
        THEN "Invalid " \o label \o " hour"
        ELSE IF int(parts[2]) < 0 \/ int(parts[2]) > 59
        THEN "Invalid " \o label \o " minute"
        ELSE Passed

\* hour * 60 + minute of an "HH:MM" string
MinutesOf(time_str) ==
    int(Split(time_str, ":")[1]) * 60 + int(Split(time_str, ":")[2])

validate_working_hours(start, end) ==
    IF validate_time_string(start, "start") # Passed
    THEN validate_time_string(start, "start")
    ELSE IF validate_time_string(end, "end") # Passed
    THEN validate_time_string(end, "end")
    ELSE IF MinutesOf(start) >= MinutesOf(end)
    THEN "Invalid working hours: start time must be before end time"
    ELSE Passed

\* days is a list of int, modelled as a sequence
validate_working_days(days) ==
    IF Len(days) = 0 THEN "Invalid working days: empty list"
    ELSE IF \E i \in 1..Len(days) : days[i] < 0 \/ days[i] > 6
    THEN "Invalid working day"
    ELSE IF Len(days) # Cardinality({days[i] : i \in 1..Len(days)})
    THEN "Invalid working days: duplicate days found"
    ELSE Passed

----------------------------------------------------------------------------
(* working_hours.py                                                        *)

DEFAULT_WORKING_HOURS == [start |-> "09:00", end |-> "17:30"]
DEFAULT_WORKING_DAYS == <<0, 1, 2, 3, 4>>

\* the comparison that ends in_working_hours
WithinHours(current_minutes, start_minutes, end_minutes) ==
    IF start_minutes <= end_minutes
    THEN start_minutes <= current_minutes /\ current_minutes <= end_minutes
    ELSE current_minutes >= start_minutes \/ current_minutes <= end_minutes

in_working_hours(avail, date, tz, start, end) ==
    LET e == FirstError(<<validate_date(date), validate_timezone(tz),
                          validate_working_hours(start, end),
                          validate_platform_timezone(avail, tz)>>)
        local_parts == to_timezone_parts(avail, date, tz)
    IN  IF e # Passed THEN Raise(e)
        ELSE IF local_parts.status # "ok" THEN local_parts
        ELSE ReturnBool(WithinHours(
                 local_parts.parts.hour * 60 + local_parts.parts.minute,
                 MinutesOf(start), MinutesOf(end)))

\* the weekday of the UTC date
LocalWeekday_OfUtcDate(date, local_parts) == Weekday(date.ord)

\* date_class(year, month, day).weekday() of the local civil time of date
LocalWeekday(date, local_parts) ==
    Weekday(Ymd2Ord(local_parts.year, local_parts.month, local_parts.day))

is_working_day(avail, date, tz, working_days) ==
    LET e == FirstError(<<validate_date(date), validate_timezone(tz),
                          validate_working_days(working_days),
                          validate_platform_timezone(avail, tz)>>)
        local_parts == to_timezone_parts(avail, date, tz)
    IN  IF e # Passed THEN Raise(e)
        ELSE IF local_parts.status # "ok" THEN local_parts
        ELSE ReturnBool(\E i \in 1..Len(working_days) :
                            working_days[i] = LocalWeekday(date, local_parts.parts))

----------------------------------------------------------------------------
(* utc_formatter.py                                                        *)

\* year = str(utc_date.year)
YearText(year) == Str(year)

\* date is an aware datetime: astimezone(timezone.utc) keeps its instant,
\* which is what the model holds
to_utc_string(date) ==
    LET utc_date == Fields(date)
    IN  IF validate_date(date) # Passed THEN Raise(validate_date(date))
        ELSE ReturnText(
                YearText(utc_date.year) \o "-" \o pad(utc_date.month, 2) \o "-"
                \o pad(utc_date.day, 2) \o " " \o pad(utc_date.hour, 2) \o ":"
                \o pad(utc_date.minute, 2) \o ":" \o pad(utc_date.second, 2) \o "."
                \o pad(date.us, 6) \o "Z")

----------------------------------------------------------------------------
(* formatter.py                                                            *)

\* f"{num:0{width}d}"
FormatD(num, width) == zfill(Str(num), width)

\* the standard label whatever the season
get_timezone_abbreviation_StandardOnly(reg, avail, date, tz) ==
    IF reg[tz].preferred_abbreviations # <<>>
    THEN ReturnText(reg[tz].preferred_abbreviations[1].standard)
    ELSE ReturnText(format_offset(reg[tz].standard_offset))

\* _get_timezone_abbreviation, called once get_timezone_metadata returned:
\* the label, or the exception of is_dst
get_timezone_abbreviation(reg, avail, date, tz) ==
    LET metadata == reg[tz]
        abbr     == metadata.preferred_abbreviations
        in_dst   == is_dst(reg, avail, date, tz)
    IN  IF metadata.dst_offset = <<>>
        THEN IF abbr # <<>> /\ abbr[1].standard # ""
             THEN ReturnText(abbr[1].standard)
             ELSE ReturnText(format_offset(metadata.standard_offset))
        ELSE IF in_dst.status # "ok" THEN in_dst
        ELSE IF in_dst.flag
        THEN IF abbr # <<>> /\ abbr[1].dst # ""
             THEN ReturnText(abbr[1].dst)
             ELSE ReturnText(format_offset(metadata.dst_offset[1]))
        ELSE IF abbr # <<>> /\ abbr[1].standard # ""
             THEN ReturnText(abbr[1].standard)
             ELSE ReturnText(format_offset(metadata.standard_offset))

to_timezone_string(reg, avail, date, tz) ==
    LET e == FirstError(<<validate_date(date), validate_timezone(tz),
                          validate_platform_timezone(avail, tz)>>)
        local_parts == to_timezone_parts(avail, date, tz)
        p == local_parts.parts
        date_str == FormatD(p.year, 4) \o "-" \o FormatD(p.month, 2) \o "-"
                    \o FormatD(p.day, 2)
        time_str == FormatD(p.hour, 2) \o ":" \o FormatD(p.minute, 2) \o ":"
                    \o FormatD(p.second, 2)
        tz_abbreviation == get_timezone_abbreviation(reg, avail, date, tz)
    IN  IF e # Passed THEN Raise(e)
        ELSE IF local_parts.status # "ok" THEN local_parts
        ELSE IF get_timezone_metadata_error(reg, tz) # Passed
             THEN Raise(get_timezone_metadata_error(reg, tz))
        ELSE IF tz_abbreviation.status # "ok" THEN tz_abbreviation
        ELSE ReturnText(date_str \o " " \o time_str \o " " \o tz_abbreviation.text)

----------------------------------------------------------------------------
(* timezone_registry.py: what a caller is handed                           *)

\* the keys of TIMEZONE_REGISTRY in the order the module inserts them
RegistryOrder ==
    <<"Europe/London", "America/New_York", "America/Los_Angeles", "Europe/Paris",
      "Europe/Berlin", "Asia/Tokyo", "Australia/Sydney">>

ReturnList(l) ==
    [status |-> "ok", err |-> "", date |-> NoneDate, parts |-> NoParts,
     flag |-> FALSE, list |-> l]

ReturnMetadata(m) ==
    [status |-> "ok", err |-> "", date |-> NoneDate, parts |-> NoParts,
     flag |-> FALSE, metadata |-> m]

get_supported_timezones(reg) ==
    ReturnList(SelectSeq(RegistryOrder, LAMBDA t : t \in DOMAIN reg))

get_timezone_metadata(reg, timezone) ==
    IF get_timezone_metadata_error(reg, timezone) # Passed
    THEN Raise(get_timezone_metadata_error(reg, timezone))
    ELSE ReturnMetadata(reg[timezone])

\* the list handed out is the registry's own keys: an entry the caller
\* drops from it leaves the registry
RegistryAfterListChange_View(reg, held) ==
    [t \in DOMAIN reg \cap {held[i] : i \in 1..Len(held)} |-> reg[t]]

\* the registry once the caller changed the list it was handed into held:
\* list(TIMEZONE_REGISTRY.keys()) built a new list, the registry has no part
\* in it
RegistryAfterListChange(reg, held) == reg

\* a class that takes the assignment
RegistryAfterAssignment_Unfrozen(reg, timezone, value) ==
    [reg EXCEPT ![timezone].dst_offset = value]

\* the registry once the caller assigned value to metadata.dst_offset of the
\* object get_timezone_metadata returned: TimezoneMetadata is frozen, the
\* assignment raises and the object is as before
RegistryAfterAssignment(reg, timezone, value) == reg

----------------------------------------------------------------------------
(* dst_transitions.py is not among the repository's files: the transition  *)
(* search is written from section 4.2 of the specification, over the       *)
(* platform's is_dst (IsDstAtUtc).                                         *)

ReturnEvent(e) ==
    [status |-> "ok", err |-> "", date |-> NoneDate, parts |-> NoParts,
     flag |-> FALSE, event |-> e]

\* the instant m minutes after midnight UTC of the day ord
AtMinute(ord, m) == AddSeconds([ord |-> ord, sec |-> 0, us |-> 0], m * 60)

\* the bisection that keeps the last instant of the old regime
RECURSIVE Bisect_LastOfOld(_, _, _, _, _)
Bisect_LastOfOld(tz, ord, lo, hi, post) ==
    IF hi - lo <= 1 THEN AtMinute(ord, lo)
    ELSE IF IsDstAtUtc(tz, AtMinute(ord, (lo + hi) \div 2)) = post
         THEN Bisect_LastOfOld(tz, ord, lo, (lo + hi) \div 2, post)
    ELSE Bisect_LastOfOld(tz, ord, (lo + hi) \div 2, hi, post)

\* steps 2 and 3: bisect the minutes lo..hi of a day, is_dst having its old
\* value at lo and the value post at hi, until they are one minute apart;
\* the first instant of the new regime
RECURSIVE Bisect(_, _, _, _, _)
Bisect(tz, ord, lo, hi, post) ==
    IF hi - lo <= 1 THEN AtMinute(ord, hi)
    ELSE IF IsDstAtUtc(tz, AtMinute(ord, (lo + hi) \div 2)) = post
         THEN Bisect(tz, ord, lo, (lo + hi) \div 2, post)
    ELSE Bisect(tz, ord, (lo + hi) \div 2, hi, post)

\* step 1: the days of the grid, the year padded by a day on each side,
\* over which is_dst flips to post
FlipDays(tz, year, post) ==
    {o \in (Ymd2Ord(year, 1, 1) - 1)..(Ymd2Ord(year, 12, 31) + 1) :
        /\ IsDstAtUtc(tz, AtMinute(o, 0)) # post
        /\ IsDstAtUtc(tz, AtMinute(o + 1, 0)) = post}

\* the search of transitions_for_year: the instants of the year's switch to
\* daylight time and back, an absent one <<>> (its failures
\* UnsupportedTimezone and YearOutOfRange belong to the public operation:
\* next_transition_after has no YearOutOfRange among its failures)
transitions_for_year(tz, year) ==
    LET flip(post) ==
            IF FlipDays(tz, year, post) = {} THEN <<>>
            ELSE <<Bisect(tz, CHOOSE o \in FlipDays(tz, year, post) : TRUE,
                          0, 24 * 60, post)>>
    IN  [start |-> flip(TRUE), end |-> flip(FALSE)]

\* the transition events of a year
EventsOfYear(tz, year) ==
    LET t == transitions_for_year(tz, year)
    IN  {[instant |-> t.start[i], kind |-> "Start", year |-> year] : i \in DOMAIN t.start}
        \cup {[instant |-> t.end[i], kind |-> "End", year |-> year] : i \in DOMAIN t.end}

\* the earliest event of the year strictly after instant, searched in the
\* following year when there is none
RECURSIVE NextEventFrom(_, _, _)
NextEventFrom(tz, instant, year) ==
    LET later == {e \in EventsOfYear(tz, year) :
                     Lt(instant, e.instant)
                     \/ (instant.ord = e.instant.ord /\ instant.sec = e.instant.sec
                         /\ instant.us < e.instant.us)}
    IN  IF later = {} THEN NextEventFrom(tz, instant, year + 1)
        ELSE CHOOSE e \in later : \A f \in later : Leq(e.instant, f.instant)

next_transition_after(reg, avail, instant, tz) ==
    IF tz \notin DOMAIN reg \/ tz \notin avail THEN Raise("UnsupportedTimezone")
    ELSE IF reg[tz].dst_offset = <<>> THEN Raise("NoTransitions")
    ELSE ReturnEvent(NextEventFrom(tz, instant, OrdYear(instant.ord)))

----------------------------------------------------------------------------
(* Inputs of the model                                                     *)

\* number of years, from 2024 on, whose transitions are probed
NumProbeYears == 1
\* days probed around a transition day
PadDays == {-1, 0, 1}

ProbeYears == 2024..(2023 + NumProbeYears)

\* the timezone identifiers passed: the registry's, two the platform alone
\* knows (one of them without "/"), and one nobody knows
TzIds == DOMAIN TIMEZONE_REGISTRY \cup PlatformOnlyZones \cup {"Mars/Phobos"}

PlatformZones == DOMAIN TIMEZONE_REGISTRY \cup PlatformOnlyZones

\* the zone whose transition days are probed for tz (a zone without DST is
\* probed on London's)
ProbeRuleZone(tz) == IF TZRule(tz).sm # 0 THEN tz ELSE "Europe/London"

\* ordinals probed for tz: around both transitions of each probe year, and
\* the ends of February and of the year
ProbeOrdinals(tz) ==
    UNION {
        {RuleStart(ProbeRuleZone(tz), y).ord + k : k \in PadDays}
        \cup {RuleEnd(ProbeRuleZone(tz), y).ord + k : k \in PadDays}
        \cup {Ymd2Ord(y, 1, 1), Ymd2Ord(y, 2, 28), Ymd2Ord(y, 3, 1) - 1, Ymd2Ord(y, 12, 31)}
        : y \in ProbeYears}

\* ordinals at the edges of the supported years and the last day of the
\* datetime type (its first day lies in the database's local-mean-time era,
\* which the rules above do not describe)
EdgeOrdinals ==
    {Ymd2Ord(MinSupportedYear, 1, 1) - 1, Ymd2Ord(MinSupportedYear, 1, 1),
     Ymd2Ord(MaxSupportedYear, 12, 31), Ymd2Ord(MaxSupportedYear, 12, 31) + 1,
     Ymd2Ord(MAXYEAR, 12, 31)}

\* seconds of the day probed: every hour at :00:00, :30:00 and :59:59
ProbeSeconds == {h * 3600 + ms : h \in 0..23, ms \in {0, 1800, 3599}}

\* the instants passed as date: whole seconds, half a second past each
\* half hour, and None
ProbeDates(tz) ==
    {[ord |-> o, sec |-> s, us |-> 0] :
        o \in ProbeOrdinals(tz) \cup EdgeOrdinals, s \in ProbeSeconds}
    \cup {[ord |-> o, sec |-> h * 3600 + 1800, us |-> 500000] :
        o \in ProbeOrdinals(tz) \cup EdgeOrdinals, h \in 0..23}
    \cup {NoneDate}

\* civil times of existing dates
ValidProbeParts(tz) ==
    {Fields([ord |-> o, sec |-> s, us |-> 0]) :
        o \in ProbeOrdinals(tz) \cup EdgeOrdinals, s \in ProbeSeconds}

BaseParts == [year |-> 2024, month |-> 6, day |-> 15, hour |-> 12, minute |-> 30, second |-> 30]

\* civil times with one field off its range, and days their month lacks
InvalidProbeParts ==
    {[BaseParts EXCEPT !.year = v] : v \in {0, 10000}}
    \cup {[BaseParts EXCEPT !.month = v] : v \in {0, 13}}
    \cup {[BaseParts EXCEPT !.day = v] : v \in {0, 32}}
    \cup {[BaseParts EXCEPT !.hour = v] : v \in {-1, 24}}
    \cup {[BaseParts EXCEPT !.minute = v] : v \in {-1, 60}}
    \cup {[BaseParts EXCEPT !.second = v] : v \in {-1, 60}}
    \cup {[BaseParts EXCEPT !.year = y, !.month = 2, !.day = d] :
            y \in {2023, 2024, 2100}, d \in {29, 30, 31}}
    \cup {[BaseParts EXCEPT !.month = m, !.day = 31] : m \in {4, 6, 9, 11}}

DateArg(d)  == [kind |-> "date", date |-> d, parts |-> NoParts]
PartsArg(p) == [kind |-> "parts", date |-> NoneDate, parts |-> p]

\* the inputs tried with an identifier the platform rejects
SmokeInputs ==
    {DateArg([ord |-> Ymd2Ord(2024, 7, 15), sec |-> 12 * 3600, us |-> 0]),
     DateArg(NoneDate),
     PartsArg(BaseParts)}
    \cup {PartsArg(p) : p \in InvalidProbeParts}

Inputs(tz) ==
    IF tz \in PlatformZones \ NoSlashIds
    THEN {DateArg(d) : d \in ProbeDates(tz)}
         \cup {PartsArg(p) : p \in ValidProbeParts(tz) \cup InvalidProbeParts}
    ELSE SmokeInputs

----------------------------------------------------------------------------
(* The state machine: a caller makes one call on its input and may feed    *)
(* the result to the inverse conversion.                                   *)

VARIABLES
    registry,    \* TIMEZONE_REGISTRY, the module-level dict
    available,   \* the identifiers the platform's database holds
    tz,          \* the timezone argument of the calls
    arg,         \* the caller's input
    call,        \* the last call: [op, date, parts]
    ret,         \* its outcome
    prev         \* the call before it and its outcome, when the last call's
                 \* argument was that outcome

vars == <<registry, available, tz, arg, call, ret, prev>>

NoCall  == [op |-> "none", date |-> NoneDate, parts |-> NoParts]
NoRet   == [status |-> "none", err |-> "", date |-> NoneDate, parts |-> NoParts, flag |-> FALSE]
Nothing == [call |-> NoCall, ret |-> NoRet]

Init ==
    /\ registry = TIMEZONE_REGISTRY
    /\ tz \in TzIds
    /\ \/ /\ available = PlatformZones
          /\ arg \in Inputs(tz)
       \/ /\ tz \in DOMAIN TIMEZONE_REGISTRY
          /\ available = PlatformZones \ {tz}
          /\ arg \in SmokeInputs
    /\ call = NoCall
    /\ ret = NoRet
    /\ prev = Nothing

\* to_timezone_parts(date, tz) on the caller's input
ToTimezoneParts ==
    /\ call = NoCall
    /\ arg.kind = "date"
    /\ call' = [op |-> "to_timezone_parts", date |-> arg.date, parts |-> NoParts]
    /\ ret' = to_timezone_parts(available, arg.date, tz)
    /\ UNCHANGED <<registry, available, tz, arg, prev>>

\* from_timezone_parts(parts, tz) on the caller's input
FromTimezoneParts ==
    /\ call = NoCall
    /\ arg.kind = "parts"
    /\ call' = [op |-> "from_timezone_parts", date |-> NoneDate, parts |-> arg.parts]
    /\ ret' = from_timezone_parts(available, arg.parts, tz)
    /\ UNCHANGED <<registry, available, tz, arg, prev>>

\* is_dst(date, tz) on the caller's input
IsDst ==
    /\ call = NoCall
    /\ arg.kind = "date"
    /\ call' = [op |-> "is_dst", date |-> arg.date, parts |-> NoParts]
    /\ ret' = is_dst(registry, available, arg.date, tz)
    /\ UNCHANGED <<registry, available, tz, arg, prev>>

\* from_timezone_parts on the civil time to_timezone_parts returned
FromReturnedParts ==
    /\ call.op = "to_timezone_parts"
    /\ ret.status = "ok"
    /\ prev = Nothing
    /\ prev' = [call |-> call, ret |-> ret]
    /\ call' = [op |-> "from_timezone_parts", date |-> NoneDate, parts |-> ret.parts]
    /\ ret' = from_timezone_parts(available, ret.parts, tz)
    /\ UNCHANGED <<registry, available, tz, arg>>

\* to_timezone_parts on the instant from_timezone_parts returned
ToPartsOfReturnedDate ==
    /\ call.op = "from_timezone_parts"
    /\ ret.status = "ok"
    /\ prev = Nothing
    /\ prev' = [call |-> call, ret |-> ret]
    /\ call' = [op |-> "to_timezone_parts", date |-> ret.date, parts |-> NoParts]
    /\ ret' = to_timezone_parts(available, ret.date, tz)
    /\ UNCHANGED <<registry, available, tz, arg>>

Next ==
    \/ ToTimezoneParts
    \/ FromTimezoneParts
    \/ IsDst
    \/ FromReturnedParts
    \/ ToPartsOfReturnedDate

Spec == Init /\ [][Next]_vars

----------------------------------------------------------------------------
(* Notions the properties are stated in                                    *)

\* a timezone the library supports on this platform
Supported == tz \in DOMAIN registry /\ tz \in available

\* the invariant of a civil time: every field in its range, the year in
\* the supported years
FieldsInRange(p) ==
    /\ 1 <= p.month /\ p.month <= 12
    /\ 1 <= p.day /\ p.day <= get_days_in_month(p.year, p.month)
    /\ 0 <= p.hour /\ p.hour <= 23
    /\ 0 <= p.minute /\ p.minute <= 59
    /\ 0 <= p.second /\ p.second <= 59

YearSupported(year) == MinSupportedYear <= year /\ year <= MaxSupportedYear

ValidCivil(p) == FieldsInRange(p) /\ YearSupported(p.year)

\* the UTC instants whose wall clock in zone reads the civil time p: the
\* candidates under the zone's two offsets that map back to p
Preimages(zone, p) ==
    {u \in {AddSeconds(NaiveDatetime(p), -off) :
                off \in {TZRule(zone).std, TZRule(zone).dst, OffsetIn1970(zone)}} :
        AddSeconds(u, UtcOffsetAtUtc(zone, u)) = NaiveDatetime(p)}

InGap(zone, p)     == Preimages(zone, p) = {}
Ambiguous(zone, p) == Cardinality(Preimages(zone, p)) = 2

\* the UTC instant at which daylight time starts in zone in a year
DstStartUtc(zone, year) == AddSeconds(RuleStart(zone, year), -TZRule(zone).std)

\* the last call was op on the caller's own input
Called(op) == call.op = op /\ prev = Nothing

\* the last call was op on the successful outcome of first
CalledAfter(op, first) ==
    call.op = op /\ prev.call.op = first /\ prev.ret.status = "ok"

London == "Europe/London"
At(year, month, day, hour, minute, second) ==
    [year |-> year, month |-> month, day |-> day,
     hour |-> hour, minute |-> minute, second |-> second]
Utc(year, month, day, hour, minute, second) ==
    NaiveDatetime(At(year, month, day, hour, minute, second))

----------------------------------------------------------------------------
(* Properties                                                              *)

\* C1 as stated: for every supported timezone and every instant t whose
\* local civil time is unambiguous,
\* from_timezone_parts(to_timezone_parts(t, tz), tz) = t.
C1_RoundTripAnyInstant ==
    (/\ CalledAfter("from_timezone_parts", "to_timezone_parts")
     /\ Supported
     /\ ~Ambiguous(tz, prev.ret.parts))
    => (ret.status = "ok" /\ ret.date = prev.call.date)

\* C1: for every supported timezone and every instant t of a whole second
\* (microsecond 0) whose local civil time is unambiguous,
\* from_timezone_parts(to_timezone_parts(t, tz), tz) = t.
C1_RoundTrip ==
    (/\ CalledAfter("from_timezone_parts", "to_timezone_parts")
     /\ Supported
     /\ prev.call.date.us = 0
     /\ ~Ambiguous(tz, prev.ret.parts))
    => (ret.status = "ok" /\ ret.date = prev.call.date)

\* the first instant of British Summer Time 2024 makes the round trip
C1_Witness ==
    /\ CalledAfter("from_timezone_parts", "to_timezone_parts")
    /\ tz = London /\ Supported
    /\ prev.call.date = Utc(2024, 3, 31, 1, 0, 0)
    /\ prev.ret.parts = At(2024, 3, 31, 2, 0, 0)
    /\ ~Ambiguous(tz, prev.ret.parts)
    /\ ret.date = prev.call.date

\* C2: for every supported timezone and every valid civil time c that is not
\* inside a spring-forward gap (civil times that occur twice included),
\* to_timezone_parts(from_timezone_parts(c, tz), tz) = c.
C2_Idempotence ==
    /\ (/\ Called("from_timezone_parts")
        /\ Supported
        /\ ValidCivil(call.parts)
        /\ ~InGap(tz, call.parts))
       => ret.status = "ok"
    /\ (/\ CalledAfter("to_timezone_parts", "from_timezone_parts")
        /\ Supported
        /\ ValidCivil(prev.call.parts)
        /\ ~InGap(tz, prev.call.parts))
       => (ret.status = "ok" /\ ret.parts = prev.call.parts)

\* 01:30 on 27 October 2024, which London's clocks show twice, comes back
C2_Witness ==
    /\ CalledAfter("to_timezone_parts", "from_timezone_parts")
    /\ tz = London /\ Supported
    /\ prev.call.parts = At(2024, 10, 27, 1, 30, 0)
    /\ Ambiguous(tz, prev.call.parts)
    /\ ret.parts = prev.call.parts

\* C3: when a civil time occurs twice in tz, from_timezone_parts returns the
\* earlier of the two UTC instants that map to it (the one under the DST
\* offset).
C3_AmbiguousEarlier ==
    (/\ Called("from_timezone_parts")
     /\ Supported
     /\ ValidCivil(call.parts)
     /\ Ambiguous(tz, call.parts))
    => /\ ret.status = "ok"
       /\ ret.date \in Preimages(tz, call.parts)
       /\ \A u \in Preimages(tz, call.parts) : Leq(ret.date, u)
       /\ ret.date = AddSeconds(NaiveDatetime(call.parts), -TZRule(tz).dst)

\* London 2024-10-27 01:30 resolves to 00:30 UTC, not 01:30 UTC
C3_Witness ==
    /\ Called("from_timezone_parts")
    /\ tz = London /\ Supported
    /\ call.parts = At(2024, 10, 27, 1, 30, 0)
    /\ Preimages(tz, call.parts) = {Utc(2024, 10, 27, 0, 30, 0), Utc(2024, 10, 27, 1, 30, 0)}
    /\ ret.date = Utc(2024, 10, 27, 0, 30, 0)

\* C4: when a civil time falls in a spring-forward gap of tz,
\* from_timezone_parts returns an instant at or after the UTC instant of
\* that transition.
C4_GapNotBeforeTransition ==
    (/\ Called("from_timezone_parts")
     /\ Supported
     /\ ValidCivil(call.parts)
     /\ InGap(tz, call.parts))
    => /\ ret.status = "ok"
       /\ Leq(DstStartUtc(tz, call.parts.year), ret.date)

\* London 2024-03-31 01:30 does not exist and resolves to 01:30 UTC
C4_Witness ==
    /\ Called("from_timezone_parts")
    /\ tz = London /\ Supported
    /\ call.parts = At(2024, 3, 31, 1, 30, 0)
    /\ InGap(tz, call.parts)
    /\ DstStartUtc(tz, 2024) = Utc(2024, 3, 31, 1, 0, 0)
    /\ ret.date = Utc(2024, 3, 31, 1, 30, 0)

\* C5 as stated: a civil time inside a spring-forward gap resolves to the
\* first civil time that exists, so from_timezone_parts returns the first
\* instant of the new regime for every civil time of the gap.
C5_GapResolvesToFirstValid ==
    (/\ Called("from_timezone_parts")
     /\ Supported
     /\ ValidCivil(call.parts)
     /\ InGap(tz, call.parts))
    => /\ ret.status = "ok"
       /\ ret.date = DstStartUtc(tz, call.parts.year)

\* C6 as stated: from_timezone_parts accepts the years 1970 and 2100 and
\* fails for every year outside 1970..2100.
C6_YearBoundary ==
    (/\ Called("from_timezone_parts")
     /\ Supported
     /\ FieldsInRange(call.parts))
    => (ret.status = "ok" <=> YearSupported(call.parts.year))

\* C7 as stated: to_timezone_parts succeeds for every instant whose year is
\* in 1970..2100 and fails for every instant whose year is outside it.
C7_InstantRange ==
    (/\ Called("to_timezone_parts")
     /\ Supported
     /\ call.date # NoneDate)
    => (ret.status = "ok" <=> YearSupported(OrdYear(call.date.ord)))

\* C8 as stated: to_timezone_parts, from_timezone_parts and is_dst reject
\* every identifier that is not both in the registry and in the platform's
\* set.
C8_ClosedTimezoneSet ==
    (/\ call.op \in {"to_timezone_parts", "from_timezone_parts", "is_dst"}
     /\ ~Supported)
    => ret.status = "error"

\* the errors that report an invalid civil time
InvalidCivilErrors ==
    {"Invalid year", "Invalid month", "Invalid day", "Invalid hour",
     "Invalid minute", "Invalid second", "Invalid time parts"}

\* C9: from_timezone_parts fails, with an invalid-civil-time error when the
\* timezone is one it accepts, and returns no instant, for every civil time
\* that violates the ranges of month, day (by the length of the month),
\* hour, minute or second.
C9_FieldInvariant ==
    (/\ call.op = "from_timezone_parts"
     /\ ~FieldsInRange(call.parts))
    => /\ ret.status = "error"
       /\ ret.date = NoneDate
       /\ (tz \in available \ NoSlashIds => ret.err \in InvalidCivilErrors)

\* 29 February 2023 passes validate_time_parts and is refused by the
\* datetime constructor
C9_Witness ==
    /\ Called("from_timezone_parts")
    /\ tz = London /\ Supported
    /\ call.parts = At(2023, 2, 29, 12, 30, 30)
    /\ validate_time_parts(call.parts) = Passed
    /\ ret.status = "error"
    /\ ret.err = "Invalid time parts"

\* C10: for a timezone registered without dst_offset, is_dst is False for
\* every instant, and no valid civil time is in a gap or ambiguous: it maps
\* to exactly the instant civil minus the standard offset.
C10_NoDstStability ==
    (Supported /\ registry[tz].dst_offset = <<>>)
    => /\ (call.op = "is_dst" /\ call.date # NoneDate)
            => (ret.status = "ok" /\ ret.flag = FALSE)
       /\ (Called("from_timezone_parts") /\ ValidCivil(call.parts))
            => /\ ~InGap(tz, call.parts)
               /\ ~Ambiguous(tz, call.parts)
               /\ ret.status = "ok"
               /\ ret.date = AddSeconds(NaiveDatetime(call.parts),
                                        -(registry[tz].standard_offset * 60))

\* Tokyo 2024-03-31 01:30, a gap in London, is 16:30 UTC the day before
C10_Witness ==
    /\ Called("from_timezone_parts")
    /\ tz = "Asia/Tokyo" /\ Supported
    /\ registry[tz].dst_offset = <<>>
    /\ call.parts = At(2024, 3, 31, 1, 30, 0)
    /\ ret.date = Utc(2024, 3, 30, 16, 30, 0)

----------------------------------------------------------------------------
(* Working hours: a caller asks once about its instant, with the hours or  *)
(* the days it chooses                                                     *)

\* a winter Monday, and a Friday to a Monday of July
HoursProbeOrdinals ==
    {Ymd2Ord(2024, 1, 15)} \cup (Ymd2Ord(2024, 7, 12)..Ymd2Ord(2024, 7, 15))

HoursProbeDates ==
    {[ord |-> o, sec |-> s, us |-> 0] : o \in HoursProbeOrdinals, s \in ProbeSeconds}
    \cup {NoneDate}

\* the start and end passed: the defaults, the documented ranges, an empty
\* range, and strings that are not HH:MM times
HoursProbePairs ==
    {<<"09:00", "17:30">>, <<"08:00", "16:00">>, <<"22:00", "06:00">>,
     <<"09:00", "09:00">>, <<"9:5", "17:30">>, <<"0900", "1730">>,
     <<"09:00:00", "17:30">>, <<"09:00", "1A:30">>, <<"24:00", "17:30">>,
     <<"09:00", "17:60">>, <<"-1:00", "17:30">>, <<"", "17:30">>}

\* the working_days passed: the default, a weekend, and invalid lists
DaysProbeLists ==
    {DEFAULT_WORKING_DAYS, <<5, 6>>, <<6, 0>>, <<>>, <<0, 7>>, <<1, 1>>}

SmokeDates == {a \in SmokeInputs : a.kind = "date"}

InitHours ==
    /\ registry = TIMEZONE_REGISTRY
    /\ tz \in TzIds
    /\ \/ /\ available = PlatformZones
          /\ arg \in IF tz \in PlatformZones \ NoSlashIds
                     THEN {DateArg(d) : d \in HoursProbeDates}
                     ELSE SmokeDates
       \/ /\ tz \in DOMAIN TIMEZONE_REGISTRY
          /\ available = PlatformZones \ {tz}
          /\ arg \in SmokeDates
    /\ call = NoCall
    /\ ret = NoRet
    /\ prev = Nothing

\* in_working_hours(date, tz, start, end) on the caller's instant
InWorkingHours ==
    /\ call = NoCall
    /\ \E hours \in HoursProbePairs :
        /\ call' = [op |-> "in_working_hours", date |-> arg.date, parts |-> NoParts,
                    start |-> hours[1], end |-> hours[2]]
        /\ ret' = in_working_hours(available, arg.date, tz, hours[1], hours[2])
    /\ UNCHANGED <<registry, available, tz, arg, prev>>

\* is_working_day(date, tz, working_days) on the caller's instant
IsWorkingDay ==
    /\ call = NoCall
    /\ \E days \in DaysProbeLists :
        /\ call' = [op |-> "is_working_day", date |-> arg.date, parts |-> NoParts,
                    working_days |-> days]
        /\ ret' = is_working_day(available, arg.date, tz, days)
    /\ UNCHANGED <<registry, available, tz, arg, prev>>

NextHours ==
    \/ InWorkingHours
    \/ IsWorkingDay

SpecHours == InitHours /\ [][NextHours]_vars

\* the civil time the clocks of zone show at a UTC instant
LocalCivil(zone, date) == Fields(AddSeconds(date, UtcOffsetAtUtc(zone, date)))

\* minutes since local midnight
LocalMinutes(zone, date) ==
    LocalCivil(zone, date).hour * 60 + LocalCivil(zone, date).minute

\* an "HH:MM" string of an hour 0..23 and a minute 0..59
IsClockTime(s) == validate_time_string(s, "") = Passed

\* the last call asked about a real instant in a supported timezone
AskedOfInstant(op) ==
    /\ Called(op)
    /\ Supported
    /\ call.date # NoneDate
    /\ InRange(AddSeconds(call.date, UtcOffsetAtUtc(tz, call.date)))

\* C11 as stated: in_working_hours returns False when the local time in tz
\* is exactly the start time (13:00 UTC on 2024-07-15 is 09:00 EDT and, with
\* the default 09:00-17:30 hours, is not within working hours).
C11_StartExcluded ==
    (/\ AskedOfInstant("in_working_hours")
     /\ ret.status = "ok"
     /\ LocalMinutes(tz, call.date) = MinutesOf(call.start)
     /\ LocalCivil(tz, call.date).second = 0)
    => ret.flag = FALSE

\* C12 as stated: in_working_hours accepts a range whose start is later
\* than its end and returns True exactly when the local time is at or after
\* start or at or before end.
C12_MidnightSpan ==
    (/\ AskedOfInstant("in_working_hours")
     /\ IsClockTime(call.start) /\ IsClockTime(call.end)
     /\ MinutesOf(call.start) > MinutesOf(call.end))
    => /\ ret.status = "ok"
       /\ ret.flag = (\/ LocalMinutes(tz, call.date) >= MinutesOf(call.start)
                      \/ LocalMinutes(tz, call.date) <= MinutesOf(call.end))

\* the weekday of an ordinal, 0 for Monday: 2024-01-01 was a Monday
DaysSinceMonday(ord) == (ord - Ymd2Ord(2024, 1, 1)) % 7

\* the local calendar date in zone of a UTC instant, as an ordinal
LocalOrdinal(zone, date) == AddSeconds(date, UtcOffsetAtUtc(zone, date)).ord

Listed(x, list) == \E i \in 1..Len(list) : list[i] = x

\* C18: is_working_day judges an instant by the weekday of its calendar
\* date in tz's local time, not of its UTC date: the result is True iff that
\* local weekday (0 = Monday .. 6 = Sunday) is in working_days.
C18_LocalWeekday ==
    (Called("is_working_day") /\ ret.status = "ok")
    => ret.flag = Listed(DaysSinceMonday(LocalOrdinal(tz, call.date)), call.working_days)

\* an instant of a UTC Sunday that is a working Monday in tz
C18_Witness ==
    /\ Called("is_working_day")
    /\ ret.status = "ok"
    /\ LocalOrdinal(tz, call.date) # call.date.ord
    /\ ~Listed(DaysSinceMonday(call.date.ord), call.working_days)
    /\ ret.flag

----------------------------------------------------------------------------
(* UTC strings: a caller formats an instant, then another one, and         *)
(* compares the two strings                                                *)

Stamp(year, month, day, hour, minute, second, microsecond) ==
    [ord |-> Ymd2Ord(year, month, day),
     sec |-> hour * 3600 + minute * 60 + second,
     us  |-> microsecond]

\* instants one step apart in each field of the string: the documented
\* ones, a rollover of every field, and the years around a change in the
\* number of digits
UtcProbeDates ==
    {Stamp(2024, 7, 15, 14, 35, 42, 123000), Stamp(2024, 7, 15, 14, 35, 42, 124000),
     Stamp(2024, 1, 5, 8, 5, 5, 7000),       Stamp(2024, 1, 5, 8, 5, 5, 0),
     Stamp(2024, 1, 5, 8, 5, 9, 999999),     Stamp(2024, 1, 5, 8, 5, 10, 0),
     Stamp(2024, 1, 5, 8, 9, 59, 0),         Stamp(2024, 1, 5, 8, 10, 0, 0),
     Stamp(2024, 1, 5, 9, 59, 59, 0),        Stamp(2024, 1, 5, 10, 0, 0, 0),
     Stamp(2024, 1, 9, 23, 59, 59, 0),       Stamp(2024, 1, 10, 0, 0, 0, 0),
     Stamp(2024, 9, 30, 23, 59, 59, 0),      Stamp(2024, 10, 1, 0, 0, 0, 0),
     Stamp(1969, 12, 31, 23, 59, 59, 999999), Stamp(1970, 1, 1, 0, 0, 0, 0),
     Stamp(2100, 12, 31, 23, 59, 59, 999999), Stamp(2101, 1, 1, 0, 0, 0, 0),
     Stamp(999, 12, 31, 23, 59, 59, 999999), Stamp(1000, 1, 1, 0, 0, 0, 0),
     Stamp(1, 1, 1, 0, 0, 0, 0),             Stamp(9999, 12, 31, 23, 59, 59, 999999),
     NoneDate}

InitUtcString ==
    /\ registry = TIMEZONE_REGISTRY
    /\ available = PlatformZones
    /\ tz \in TzIds
    /\ arg \in {DateArg(d) : d \in UtcProbeDates}
    /\ call = NoCall
    /\ ret = NoRet
    /\ prev = Nothing

\* to_utc_string(date) on the caller's instant
ToUtcString ==
    /\ call = NoCall
    /\ call' = [op |-> "to_utc_string", date |-> arg.date, parts |-> NoParts]
    /\ ret' = to_utc_string(arg.date)
    /\ UNCHANGED <<registry, available, tz, arg, prev>>

\* to_utc_string(date) on another instant, the first string kept
ToUtcStringOfAnother ==
    /\ call.op = "to_utc_string"
    /\ prev = Nothing
    /\ \E other \in UtcProbeDates :
        /\ call' = [op |-> "to_utc_string", date |-> other, parts |-> NoParts]
        /\ ret' = to_utc_string(other)
    /\ prev' = [call |-> call, ret |-> ret]
    /\ UNCHANGED <<registry, available, tz, arg>>

NextUtcString ==
    \/ ToUtcString
    \/ ToUtcStringOfAnother

SpecUtcString == InitUtcString /\ [][NextUtcString]_vars

\* a is chronologically before b, to the microsecond
Before(a, b) == Lt(a, b) \/ (a.ord = b.ord /\ a.sec = b.sec /\ a.us < b.us)

\* C13 as stated: for any two instants a and b accepted by to_utc_string, a
\* is chronologically before b if and only if to_utc_string(a) is
\* lexicographically smaller than to_utc_string(b).
C13_StableOrdering ==
    (/\ call.op = "to_utc_string" /\ prev.call.op = "to_utc_string"
     /\ prev.ret.status = "ok" /\ ret.status = "ok")
    => (Before(prev.call.date, call.date) <=> StrLess(prev.ret.text, ret.text))

----------------------------------------------------------------------------
(* Timezone strings: a caller formats its instant once                     *)

TextProbeDates(zone) ==
    {[ord |-> o, sec |-> s, us |-> 0] : o \in ProbeOrdinals(zone), s \in ProbeSeconds}
    \cup {d \in UtcProbeDates : d = NoneDate \/ d.ord >= Ymd2Ord(MinSupportedYear, 1, 1) - 1}

InitTimezoneString ==
    /\ registry = TIMEZONE_REGISTRY
    /\ tz \in TzIds
    /\ \/ /\ available = PlatformZones
          /\ arg \in IF tz \in PlatformZones \ NoSlashIds
                     THEN {DateArg(d) : d \in TextProbeDates(tz)}
                     ELSE SmokeDates
       \/ /\ tz \in DOMAIN TIMEZONE_REGISTRY
          /\ available = PlatformZones \ {tz}
          /\ arg \in SmokeDates
    /\ call = NoCall
    /\ ret = NoRet
    /\ prev = Nothing

\* to_timezone_string(date, tz) on the caller's instant
ToTimezoneString ==
    /\ call = NoCall
    /\ call' = [op |-> "to_timezone_string", date |-> arg.date, parts |-> NoParts]
    /\ ret' = to_timezone_string(registry, available, arg.date, tz)
    /\ UNCHANGED <<registry, available, tz, arg, prev>>

NextTimezoneString == ToTimezoneString

SpecTimezoneString == InitTimezoneString /\ [][NextTimezoneString]_vars

\* two digits of a number below 100
TwoDigits(n) == CharAt(Digits, (n \div 10) + 1) \o CharAt(Digits, (n % 10) + 1)

\* 'GMT' + sign + two-digit hours + ':' + two-digit minutes of an offset
OffsetLabel(offset_minutes) ==
    LET magnitude == IF offset_minutes < 0 THEN -offset_minutes ELSE offset_minutes
    IN  "GMT" \o (IF offset_minutes < 0 THEN "-" ELSE "+")
        \o TwoDigits(magnitude \div 60) \o ":" \o TwoDigits(magnitude % 60)

\* the label C19 describes for an instant in a registry timezone
ExpectedLabel(zone, date) ==
    LET meta == registry[zone]
    IN  IF meta.preferred_abbreviations = <<>>
        THEN OffsetLabel(IF is_dst(registry, available, date, zone).flag
                         THEN meta.dst_offset[1] ELSE meta.standard_offset)
        ELSE IF is_dst(registry, available, date, zone).flag
             THEN meta.preferred_abbreviations[1].dst
             ELSE meta.preferred_abbreviations[1].standard

EndsWith(s, suffix) ==
    Len(s) >= Len(suffix) /\ SubSeq(s, Len(s) - Len(suffix) + 1, Len(s)) = suffix

\* C19: to_timezone_string appends the registry's DST abbreviation exactly
\* when is_dst(date, tz) holds and the standard abbreviation otherwise; for a
\* timezone with no DST and no preferred abbreviations it appends
\* format_offset(standard_offset): 'GMT', the sign, two-digit hours, ':' and
\* two-digit minutes of the offset magnitude (GMT+09:00 for Asia/Tokyo).
C19_TimezoneLabel ==
    (Called("to_timezone_string") /\ ret.status = "ok")
    => /\ EndsWith(ret.text, " " \o ExpectedLabel(tz, call.date))
       /\ tz = "Asia/Tokyo" => EndsWith(ret.text, " GMT+09:00")

\* a summer instant labelled BST and a Tokyo instant labelled by its offset
C19_Witness ==
    /\ Called("to_timezone_string")
    /\ \/ tz = London /\ call.date = RuleStart(London, 2024)
          /\ ret.text = "2024-03-31 02:00:00 BST"
       \/ tz = "Asia/Tokyo" /\ ret.status = "ok"
          /\ EndsWith(ret.text, "21:00:00 GMT+09:00")

----------------------------------------------------------------------------
(* A session: a caller makes any calls on its inputs, in any order, and    *)
(* changes what it was handed. prev holds the first call of the session    *)
(* with its outcome, and whether anything else was done since.             *)

DateOperations ==
    {"to_timezone_parts", "is_dst", "to_utc_string", "to_timezone_string",
     "in_working_hours", "is_working_day"}
PartsOperations == {"from_timezone_parts"}
RegistryOperations ==
    {"get_supported_timezones", "get_timezone_metadata", "is_supported_timezone"}

PublicOperations == DateOperations \cup PartsOperations \cup RegistryOperations

\* the outcome of the public operation op on the caller's inputs
Invoke(op, reg, avail, a, zone) ==
    CASE op = "to_timezone_parts"   -> to_timezone_parts(avail, a.date, zone)
      [] op = "is_dst"              -> is_dst(reg, avail, a.date, zone)
      [] op = "to_utc_string"       -> to_utc_string(a.date)
      [] op = "to_timezone_string"  -> to_timezone_string(reg, avail, a.date, zone)
      [] op = "in_working_hours"    ->
            in_working_hours(avail, a.date, zone,
                             DEFAULT_WORKING_HOURS.start, DEFAULT_WORKING_HOURS.end)
      [] op = "is_working_day"      -> is_working_day(avail, a.date, zone, DEFAULT_WORKING_DAYS)
      [] op = "from_timezone_parts" -> from_timezone_parts(avail, a.parts, zone)
      [] op = "get_supported_timezones" -> get_supported_timezones(reg)
      [] op = "get_timezone_metadata"   -> get_timezone_metadata(reg, zone)
      [] op = "is_supported_timezone"   -> ReturnBool(is_supported_timezone(reg, zone))

\* a summer and a winter noon, None, a plain civil time, one of London's
\* gap, and an invalid one
SessionInputs ==
    {DateArg(Stamp(2024, 7, 15, 12, 0, 0, 0)), DateArg(Stamp(2024, 1, 15, 12, 0, 0, 0)),
     DateArg(NoneDate),
     PartsArg(BaseParts),
     PartsArg([BaseParts EXCEPT !.month = 3, !.day = 31, !.hour = 1]),
     PartsArg([BaseParts EXCEPT !.month = 2, !.day = 30])}

InitSession ==
    /\ registry = TIMEZONE_REGISTRY
    /\ available = PlatformZones
    /\ tz \in TzIds
    /\ arg \in SessionInputs
    /\ call = NoCall
    /\ ret = NoRet
    /\ prev = Nothing

\* prev after a step whose call is next_call
Noted(next_call) ==
    IF call = NoCall THEN Nothing
    ELSE IF prev = Nothing
         THEN [call |-> call, ret |-> ret, since |-> next_call # call]
    ELSE [prev EXCEPT !.since = @ \/ next_call # prev.call]

\* any public operation, on the caller's inputs
SessionCall ==
    \E op \in PublicOperations :
        LET next_call == [op |-> op,
                          date |-> IF op \in DateOperations THEN arg.date ELSE NoneDate,
                          parts |-> IF op \in PartsOperations THEN arg.parts ELSE NoParts]
        IN  /\ op \in DateOperations => arg.kind = "date"
            /\ op \in PartsOperations => arg.kind = "parts"
            /\ call' = next_call
            /\ ret' = Invoke(op, registry, available, arg, tz)
            /\ prev' = Noted(next_call)
            /\ UNCHANGED <<registry, available, tz, arg>>

\* what a caller does to a list: append, remove the first entry, clear
ListChanges(l) ==
    {Append(l, "Mars/Phobos"), <<>>} \cup (IF l = <<>> THEN {} ELSE {Tail(l)})

\* the caller changes the list get_supported_timezones returned
ChangeReturnedList ==
    /\ call.op = "get_supported_timezones"
    /\ \E held \in ListChanges(ret.list) :
        LET next_call == [op |-> "change of the returned list", date |-> NoneDate,
                          parts |-> NoParts]
        IN  /\ call' = next_call
            /\ ret' = ReturnList(held)
            /\ registry' = RegistryAfterListChange(registry, held)
            /\ prev' = Noted(next_call)
    /\ UNCHANGED <<available, tz, arg>>

\* the caller assigns None to dst_offset of the metadata it was returned
AssignToReturnedMetadata ==
    /\ call.op = "get_timezone_metadata"
    /\ ret.status = "ok"
    /\ LET next_call == [op |-> "assignment to the returned metadata", date |-> NoneDate,
                         parts |-> NoParts]
       IN  /\ call' = next_call
           /\ ret' = Raise("FrozenInstanceError")
           /\ registry' = RegistryAfterAssignment(registry, tz, <<>>)
           /\ prev' = Noted(next_call)
    /\ UNCHANGED <<available, tz, arg>>

NextSession ==
    \/ SessionCall
    \/ ChangeReturnedList
    \/ AssignToReturnedMetadata

SpecSession == InitSession /\ [][NextSession]_vars

----------------------------------------------------------------------------
(* The gap search of from_timezone_parts, one pass of a loop at a time.    *)
(* While the call runs, ret is NoRet and call holds the loop it is in      *)
(* (direction 1: the search ahead, -1: the search behind) and its          *)
(* delta_minutes.                                                          *)

\* civil times of the last day of the datetime type, where the conversion
\* to UTC can overflow, and of the day daylight time starts
GapSearchParts(zone) ==
    {Fields([ord |-> o, sec |-> s, us |-> 0]) :
        o \in {Ymd2Ord(MAXYEAR, 12, 31), RuleStart(ProbeRuleZone(zone), 2024).ord},
        s \in ProbeSeconds}

SmokeParts == {a \in SmokeInputs : a.kind = "parts"}

InitGapSearch ==
    /\ registry = TIMEZONE_REGISTRY
    /\ available = PlatformZones
    /\ tz \in TzIds
    /\ arg \in IF tz \in PlatformZones \ NoSlashIds
               THEN {PartsArg(p) : p \in GapSearchParts(tz)} \cup SmokeParts
               ELSE SmokeParts
    /\ call = NoCall
    /\ ret = NoRet
    /\ prev = Nothing

\* the loops never hand the turn on: each pass goes to the next minute
TryAdjustedMinute_NoLimit ==
    /\ call.op = "from_timezone_parts"
    /\ ret = NoRet
    /\ call' = [call EXCEPT !.delta_minutes = @ + 1]
    /\ UNCHANGED <<registry, available, tz, arg, ret, prev>>

\* from_timezone_parts up to its loops: the validations, the constructor
\* and the two direct attempts
EnterFromTimezoneParts ==
    /\ call = NoCall
    /\ arg.kind = "parts"
    /\ LET e == FirstError(<<validate_time_parts(arg.parts), validate_timezone(tz),
                             validate_platform_timezone(available, tz)>>)
           naive_dt == NaiveDatetime(arg.parts)
           searches ==
               /\ e = Passed
               /\ DatetimeError(arg.parts) = Passed
               /\ ~InRange(LocalizeFirst(tz, naive_dt))
               /\ ~InRange(LocalizedToUtc(tz, naive_dt, 1))
       IN  /\ call' = [op |-> "from_timezone_parts", date |-> NoneDate,
                       parts |-> arg.parts,
                       direction |-> IF searches THEN 1 ELSE 0,
                       delta_minutes |-> IF searches THEN 1 ELSE 0]
           /\ ret' = IF searches THEN NoRet
                     ELSE from_timezone_parts(available, arg.parts, tz)
    /\ UNCHANGED <<registry, available, tz, arg, prev>>

\* one pass of the loop the call is in: return the adjusted time if it
\* localizes, else go on to the next minute, to the search behind, or to
\* the raise after both loops
TryAdjustedMinute ==
    /\ call.op = "from_timezone_parts"
    /\ ret = NoRet
    /\ LET adjusted_dt == AddSeconds(NaiveDatetime(call.parts),
                                     call.direction * call.delta_minutes * 60)
       IN  IF InRange(adjusted_dt) /\ InRange(LocalizeFirst(tz, adjusted_dt))
           THEN ret' = ReturnDate(LocalizeFirst(tz, adjusted_dt)) /\ UNCHANGED call
           ELSE IF call.delta_minutes < GapSearchMinutes
           THEN call' = [call EXCEPT !.delta_minutes = @ + 1] /\ UNCHANGED ret
           ELSE IF call.direction = 1
           THEN call' = [call EXCEPT !.direction = -1, !.delta_minutes = 1]
                /\ UNCHANGED ret
           ELSE ret' = Raise("Cannot resolve time parts") /\ UNCHANGED call
    /\ UNCHANGED <<registry, available, tz, arg, prev>>

NextGapSearch ==
    \/ EnterFromTimezoneParts
    \/ TryAdjustedMinute

SpecGapSearch == InitGapSearch /\ [][NextGapSearch]_vars

\* the search is under way
Searching == call.op = "from_timezone_parts" /\ ret = NoRet

\* the passes the call can still make: the rest of the loop it is in and
\* the loop after it
PassesLeft ==
    IF call = NoCall THEN 2 * 180 + 1
    ELSE IF ret # NoRet THEN 0
    ELSE IF call.direction = 1 THEN 2 * 180 + 1 - call.delta_minutes
    ELSE 180 + 1 - call.delta_minutes

\* the minutes, up to three hours either way, whose adjusted time has a UTC
\* instant
ValidMinutes(zone, p) ==
    {d \in (1..180) \cup {-k : k \in 1..180} :
        LET t == AddSeconds(NaiveDatetime(p), d * 60)
        IN  InRange(t) /\ InRange(AddSeconds(t, -UtcOffsetOfWall(zone, t, 0)))}

\* C15: from_timezone_parts always terminates: every step of the call uses
\* up one of a fixed number of passes, the search tries 1 to 180 minutes
\* ahead and then 1 to 180 minutes behind, and when no step yields a valid
\* time the call fails with the unresolvable-civil-time error instead of
\* looping or returning a value.
C15_BoundedGapSearch ==
    [][/\ PassesLeft' < PassesLeft
       /\ PassesLeft' >= 0
       /\ Searching' => /\ call'.delta_minutes \in 1..180
                        /\ call'.direction \in {1, -1}
       /\ (Searching /\ ~Searching' /\ ValidMinutes(tz, call.parts) = {})
            => ret' = Raise("Cannot resolve time parts")
       /\ (Searching /\ ret'.status = "error")
            => ValidMinutes(tz, call.parts) = {}]_vars

\* the search gave up after its last pass behind
C15_Witness ==
    /\ call.op = "from_timezone_parts"
    /\ call.direction = -1
    /\ call.delta_minutes = 180
    /\ ret = Raise("Cannot resolve time parts")

----------------------------------------------------------------------------
(* Order of civil times: a caller converts a civil time, then a later one  *)

\* the first five hours of the days the clocks change in zone
OrderProbeParts(zone) ==
    {Fields([ord |-> o, sec |-> s, us |-> 0]) :
        o \in {RuleStart(ProbeRuleZone(zone), 2024).ord, RuleEnd(ProbeRuleZone(zone), 2024).ord},
        s \in {t \in ProbeSeconds : t < 5 * 3600}}

InitOrder ==
    /\ registry = TIMEZONE_REGISTRY
    /\ available = PlatformZones
    /\ tz \in TzIds
    /\ arg \in IF tz \in PlatformZones \ NoSlashIds
               THEN {PartsArg(p) : p \in OrderProbeParts(tz)}
               ELSE SmokeParts
    /\ call = NoCall
    /\ ret = NoRet
    /\ prev = Nothing

\* c1 <= c2 as civil times
CivilLeq(c1, c2) == Leq(NaiveDatetime(c1), NaiveDatetime(c2))

\* from_timezone_parts on a civil time not before the one just converted
FromLaterParts ==
    /\ call.op = "from_timezone_parts"
    /\ prev = Nothing
    /\ \E later \in OrderProbeParts(tz) :
        /\ CivilLeq(call.parts, later)
        /\ call' = [op |-> "from_timezone_parts", date |-> NoneDate, parts |-> later]
        /\ ret' = from_timezone_parts(available, later, tz)
    /\ prev' = [call |-> call, ret |-> ret]
    /\ UNCHANGED <<registry, available, tz, arg>>

NextOrder ==
    \/ FromTimezoneParts
    \/ FromLaterParts

SpecOrder == InitOrder /\ [][NextOrder]_vars

\* C20 as stated: for any two valid civil times c1 <= c2 on the same
\* timezone (including times inside or just after a spring-forward gap),
\* from_timezone_parts(c1, tz) <= from_timezone_parts(c2, tz).
C20_Monotone ==
    (/\ call.op = "from_timezone_parts" /\ prev.call.op = "from_timezone_parts"
     /\ Supported
     /\ ValidCivil(prev.call.parts) /\ ValidCivil(call.parts)
     /\ CivilLeq(prev.call.parts, call.parts)
     /\ prev.ret.status = "ok" /\ ret.status = "ok")
    => Leq(prev.ret.date, ret.date)

----------------------------------------------------------------------------
(* Transitions: a caller asks once for the transition after its instant    *)

\* the year whose transitions are probed
TransitionProbeYear == 2024

\* the instants passed: a day, a second and a microsecond on either side of
\* both transitions of the probe year and the transitions themselves, the
\* middle of three months, the ends of the year, and the last day of the
\* supported years
TransitionProbeDates(zone) ==
    LET y == TransitionProbeYear
        edges == {DstStartUtc(ProbeRuleZone(zone), y),
                  AddSeconds(RuleEnd(ProbeRuleZone(zone), y), -TZRule(ProbeRuleZone(zone)).dst)}
    IN  {AddSeconds(e, k) : e \in edges, k \in {-86400, -1, 0, 1, 86400}}
        \cup {[AddSeconds(e, -1) EXCEPT !.us = 999999] : e \in edges}
        \cup {[e EXCEPT !.us = 1] : e \in edges}
        \cup {Utc(y, m, 15, 12, 0, 0) : m \in {1, 6, 12}}
        \cup {Utc(y, 1, 1, 0, 0, 0), Utc(y, 12, 31, 23, 59, 59),
              Utc(MaxSupportedYear, 12, 31, 12, 0, 0)}

InitTransitions ==
    /\ registry = TIMEZONE_REGISTRY
    /\ tz \in TzIds
    /\ \/ /\ available = PlatformZones
          /\ arg \in IF tz \in PlatformZones \ NoSlashIds
                     THEN {DateArg(d) : d \in TransitionProbeDates(tz)}
                     ELSE SmokeDates
       \/ /\ tz \in DOMAIN TIMEZONE_REGISTRY
          /\ available = PlatformZones \ {tz}
          /\ arg \in SmokeDates
    /\ call = NoCall
    /\ ret = NoRet
    /\ prev = Nothing

\* next_transition_after(instant, tz) on the caller's instant
NextTransitionAfter ==
    /\ call = NoCall
    /\ call' = [op |-> "next_transition_after", date |-> arg.date, parts |-> NoParts]
    /\ ret' = next_transition_after(registry, available, arg.date, tz)
    /\ UNCHANGED <<registry, available, tz, arg, prev>>

NextTransitions == NextTransitionAfter

SpecTransitions == InitTransitions /\ [][NextTransitions]_vars

\* the UTC instant at which daylight time ends in zone in a year
DstEndUtc(zone, year) == AddSeconds(RuleEnd(zone, year), -TZRule(zone).dst)

\* the transition events the zone's rule gives for the years around an
\* instant
RuleEvents(zone, instant) ==
    UNION {{[instant |-> DstStartUtc(zone, y), kind |-> "Start", year |-> y],
            [instant |-> DstEndUtc(zone, y), kind |-> "End", year |-> y]} :
           y \in (OrdYear(instant.ord) - 1)..(OrdYear(instant.ord) + 1)}

====
